---- MODULE Spec2Model ----
(***************************************************************************)
(* A model of brettbuddin/pass: LoadManifest, the mount options, New and   *)
(* Mount (the route compiler), and the serving of one request through the  *)
(* compiled chi router, the per-upstream middleware group, StripPrefix,    *)
(* the observe closure and httputil.ReverseProxy.                          *)
(*                                                                         *)
(* Strings that the code only compares or copies (identifiers, owners,     *)
(* destinations, methods) are TLA+ strings.  Paths are sequences of tokens *)
(* ("/" and segment names that hold no "/" and are no prefix of one        *)
(* another), so that path.Join, path.Clean and strings.TrimPrefix are      *)
(* computed token by token as the code computes them byte by byte.         *)
(***************************************************************************)
EXTENDS Integers, Sequences, FiniteSets, TLC

\* ------------------------------------------------------------------ bounds

\* Upstream blocks in one manifest file.
MaxUpstreams == 2

\* Mount options given to one New / Mount call.
MaxOpts == 2

\* Requests handled at the same time, one goroutine each.
MaxInflight == 2

\* ------------------------------------------------------- sequence helpers

Last(s) == s[Len(s)]

Front(s) == SubSeq(s, 1, Len(s) - 1)

Range(s) == {s[i] : i \in 1..Len(s)}

SeqsUpTo(S, n) == UNION {[1..k -> S] : k \in 0..n}

\* ------------------------------------------------------------------ paths

\* strings.HasPrefix
HasPrefix(p, pre) == Len(pre) <= Len(p) /\ SubSeq(p, 1, Len(pre)) = pre

\* strings.TrimPrefix
TrimPrefix(p, pre) == IF HasPrefix(p, pre) THEN SubSeq(p, Len(pre) + 1, Len(p)) ELSE p

\* The segments of p between its "/" separators ("/a/b" has segments "", "a", "b").
RECURSIVE Segments(_)
Segments(p) ==
    IF p = <<>> THEN << <<>> >>
    ELSE LET rest == Segments(Tail(p))
         IN IF Head(p) = "/" THEN << <<>> >> \o rest
            ELSE << <<Head(p)>> \o Head(rest) >> \o Tail(rest)

\* path.Clean's walk over the segments: "" and "." are dropped, ".." removes the
\* element before it (or is kept at the start of a path that is not rooted).
RECURSIVE CleanSegments(_, _, _)
CleanSegments(segs, out, rooted) ==
    IF segs = <<>> THEN out
    ELSE LET s == Head(segs)
         IN IF s = <<>> \/ s = <<".">> THEN CleanSegments(Tail(segs), out, rooted)
            ELSE IF s = <<"..">>
                 THEN IF out # <<>> /\ Last(out) # <<"..">>
                      THEN CleanSegments(Tail(segs), Front(out), rooted)
                      ELSE IF rooted THEN CleanSegments(Tail(segs), out, rooted)
                           ELSE CleanSegments(Tail(segs), Append(out, s), rooted)
                 ELSE CleanSegments(Tail(segs), Append(out, s), rooted)

RECURSIVE JoinSegments(_)
JoinSegments(segs) ==
    IF segs = <<>> THEN <<>>
    ELSE IF Len(segs) = 1 THEN Head(segs)
         ELSE Head(segs) \o <<"/">> \o JoinSegments(Tail(segs))

\* path.Clean
Clean(p) ==
    IF p = <<>> THEN <<".">>
    ELSE LET rooted == Head(p) = "/"
             body == JoinSegments(CleanSegments(Segments(p), <<>>, rooted))
         IN IF rooted THEN <<"/">> \o body
            ELSE IF body = <<>> THEN <<".">> ELSE body

RECURSIVE JoinRaw(_)
JoinRaw(elems) ==
    IF elems = <<>> THEN <<>>
    ELSE IF Len(elems) = 1 THEN Head(elems)
         ELSE Head(elems) \o <<"/">> \o JoinRaw(Tail(elems))

\* path.Join: the empty elements are ignored, the rest joined by "/" and cleaned;
\* the result is the empty string when every element is empty.
Join(elems) ==
    LET ne == SelectSeq(elems, LAMBDA e : e # <<>>)
    IN IF ne = <<>> THEN <<>> ELSE Clean(JoinRaw(ne))

\* httputil's singleJoiningSlash, which the default director uses to put the
\* request path behind the target URL's path.
SingleJoiningSlash(a, b) ==
    LET aslash == a # <<>> /\ Last(a) = "/"
        bslash == b # <<>> /\ Head(b) = "/"
    IN IF aslash /\ bslash THEN a \o Tail(b)
       ELSE IF ~aslash /\ ~bslash THEN a \o <<"/">> \o b
            ELSE a \o b

\* ---------------------------------------------------------------- int64
\* Go's int (64 bits here) and time.Duration (int64): a sign and a magnitude,
\* the magnitude in digits of base 1000, the least significant first, without
\* leading zero digits (the empty sequence is 0).

RECURSIVE Digits(_)
Digits(n) == IF n = 0 THEN <<>> ELSE <<n % 1000>> \o Digits(n \div 1000)

\* The int64 of a small integer.
Int64(n) == [neg |-> n < 0, mag |-> Digits(IF n < 0 THEN -n ELSE n)]

\* 2^63 - 1, 2^63 and 2^64.
MaxInt64 == <<807, 775, 854, 36, 372, 223, 9>>

TwoTo63 == <<808, 775, 854, 36, 372, 223, 9>>

TwoTo64 == <<616, 551, 709, 73, 744, 446, 18>>

\* a <= b for magnitudes.
RECURSIVE Leq(_, _)
Leq(a, b) ==
    IF Len(a) # Len(b) THEN Len(a) < Len(b)
    ELSE IF a = <<>> THEN TRUE
    ELSE IF Last(a) # Last(b) THEN Last(a) < Last(b)
    ELSE Leq(Front(a), Front(b))

\* Without its leading zero digits.
RECURSIVE Normal(_)
Normal(a) == IF a # <<>> /\ Last(a) = 0 THEN Normal(Front(a)) ELSE a

\* a - b for magnitudes a >= b, digit by digit with the borrow.
RECURSIVE SubDigits(_, _, _)
SubDigits(a, b, borrow) ==
    IF a = <<>> THEN <<>>
    ELSE LET d == Head(a) - (IF b = <<>> THEN 0 ELSE Head(b)) - borrow
         IN <<d % 1000>> \o SubDigits(Tail(a), IF b = <<>> THEN <<>> ELSE Tail(b),
                                      IF d < 0 THEN 1 ELSE 0)

Sub(a, b) == Normal(SubDigits(a, b, 0))

\* The int64 that holds the low 64 bits of a result, in two's complement.
RECURSIVE Wrap64(_)
Wrap64(x) ==
    IF (~x.neg /\ Leq(x.mag, MaxInt64)) \/ (x.neg /\ Leq(x.mag, TwoTo63)) THEN x
    ELSE IF Leq(TwoTo64, x.mag) THEN Wrap64([x EXCEPT !.mag = Sub(@, TwoTo64)])
    ELSE [neg |-> ~x.neg, mag |-> Sub(TwoTo64, x.mag)]

\* d * time.Millisecond (1,000,000 ns: two digits of base 1000) before it is
\* cut to 64 bits.
TimesMillisecond(d) ==
    [d EXCEPT !.mag = IF @ = <<>> THEN <<>> ELSE <<0, 0>> \o @]

\* time.Duration(ms) without the factor time.Millisecond.
FlushIntervalUnscaled(ms) == ms

\* time.Duration(u.FlushIntervalMS) * time.Millisecond
FlushInterval(ms) == Wrap64(TimesMillisecond(ms))

\* ----------------------------------------------------------- destinations

\* url.Parse on the destination strings the manifests of this model use.
ParseURL(dest) ==
    CASE dest = "http://accounts.local" ->
            [err |-> FALSE, Scheme |-> "http", Host |-> "accounts.local", Path |-> <<>>]
      [] dest = "http://widgets.local" ->
            [err |-> FALSE, Scheme |-> "http", Host |-> "widgets.local", Path |-> <<>>]
      [] dest = "http://bobs.local" ->
            [err |-> FALSE, Scheme |-> "http", Host |-> "bobs.local", Path |-> <<>>]
      \* no "://": the whole string is a relative path
      [] dest = "noscheme.local" ->
            [err |-> FALSE, Scheme |-> "", Host |-> "", Path |-> <<"noscheme.local">>]
      \* "scheme:opaque": a scheme and no host
      [] dest = "localhost:8080" ->
            [err |-> FALSE, Scheme |-> "localhost", Host |-> "", Path |-> <<>>]
      \* "first path segment in URL cannot contain colon"
      [] OTHER ->
            [err |-> TRUE, Scheme |-> "", Host |-> "", Path |-> <<>>]

\* -------------------------------------------------------- manifest inputs

\* A map[string]string: nil, or the set of its key/value pairs.
NilMap == [nil |-> TRUE, kv |-> {}]

EmptyMap == [nil |-> FALSE, kv |-> {}]

\* Route blocks.
RtAccountsId == [Methods |-> <<"GET">>, Path |-> <<"/", "accounts", "/", "{id}">>]

RtAccounts == [Methods |-> <<"GET", "POST">>, Path |-> <<"/", "accounts">>]

RtAccountsOne == [Methods |-> <<"GET">>, Path |-> <<"/", "accounts", "/", "1">>]

RtAccountsGet == [Methods |-> <<"GET">>, Path |-> <<"/", "accounts">>]

RtWidgets == [Methods |-> <<"GET">>, Path |-> <<"/", "widgets">>]

\* Upstream blocks a manifest file may hold.  "bobs" carries the identifier of
\* "widgets" and routes that "accounts" declares too; the last three have
\* destinations that are not of the form scheme://host.
UpstreamBlocks ==
    { [Identifier |-> "accounts", Annotations |-> NilMap,
       Destination |-> "http://accounts.local",
       Routes |-> <<RtAccountsId, RtAccounts>>, FlushIntervalMS |-> Int64(0),
       Owner |-> "identity", PrefixPath |-> <<"/", "private">>],
      [Identifier |-> "widgets", Annotations |-> [nil |-> FALSE, kv |-> {<<"stack", "jwt">>}],
       Destination |-> "http://widgets.local",
       Routes |-> <<RtWidgets>>, FlushIntervalMS |-> Int64(1000),
       Owner |-> "team-a", PrefixPath |-> <<>>],
      [Identifier |-> "widgets", Annotations |-> NilMap,
       Destination |-> "http://bobs.local",
       Routes |-> <<RtAccountsOne, RtAccountsGet>>, FlushIntervalMS |-> Int64(-1),
       Owner |-> "team-b", PrefixPath |-> <<"/", "private">>],
      [Identifier |-> "legacy", Annotations |-> NilMap,
       Destination |-> "noscheme.local",
       Routes |-> <<RtWidgets>>, FlushIntervalMS |-> Int64(0),
       Owner |-> "", PrefixPath |-> <<>>],
      [Identifier |-> "local", Annotations |-> NilMap,
       Destination |-> "localhost:8080",
       Routes |-> <<RtWidgets>>,
       \* 9,223,372,036,855 ms: one more than the milliseconds an int64 of ns holds
       FlushIntervalMS |-> [neg |-> FALSE, mag |-> <<855, 36, 372, 223, 9>>],
       Owner |-> "", PrefixPath |-> <<"/", "private">>],
      [Identifier |-> "loopback", Annotations |-> NilMap,
       Destination |-> "127.0.0.1:8080",
       Routes |-> <<RtAccountsGet>>, FlushIntervalMS |-> Int64(0),
       Owner |-> "", PrefixPath |-> <<>>] }

\* prefix_path of the manifest: absent, or "/api/" with the trailing separator
\* that path.Join removes.
ManifestPrefixes == {<<>>, <<"/", "api", "/">>}

\* What hclsimple.DecodeFile yields for the manifest files of the model.
ManifestFiles ==
    { [Annotations |-> IF p = <<>> THEN NilMap ELSE [nil |-> FALSE, kv |-> {<<"version", "1">>}],
       Upstreams |-> ups, PrefixPath |-> p] :
        ups \in SeqsUpTo(UpstreamBlocks, MaxUpstreams), p \in ManifestPrefixes }

\* ------------------------------------------------------------- LoadManifest

NoError == [msg |-> "", arg |-> ""]

ErrDuplicateUpstreamIdentifier == "duplicate upstream identifier"

ErrMissingUpstreamForMiddleware == "upstream missing for middleware stack"

\* fmt.Errorf("%w: %q", sentinel, arg) and fmt.Errorf("missing scheme: %q", arg):
\* the text before the colon and the quoted argument.
Errorf(msg, arg) == [msg |-> msg, arg |-> arg]

NoIndex == [id \in {} |-> 0]

NoManifest ==
    [nil |-> TRUE, Annotations |-> NilMap, Upstreams |-> <<>>, PrefixPath |-> <<>>,
     upstreamIndex |-> NoIndex]

\* LoadManifest without the annotation defaults.
KeepAnnotations(a) == a

\* The annotation defaults: a nil map becomes an empty one.
DefaultAnnotations(a) == IF a.nil THEN EmptyMap ELSE a

\* LoadManifest as it was before the uniqueness loop was written.
ValidateNothing(ups, i, seen) == NoError

\* The uniqueness loop, from position i with the identifiers seen so far: the
\* error of the first identifier met twice, or NoError.
RECURSIVE ValidateUnique(_, _, _)
ValidateUnique(ups, i, seen) ==
    IF i > Len(ups) THEN NoError
    ELSE IF ups[i].Identifier \in seen
         THEN Errorf(ErrDuplicateUpstreamIdentifier, ups[i].Identifier)
         ELSE ValidateUnique(ups, i + 1, seen \cup {ups[i].Identifier})

\* The index the loop leaves behind.  Every key holds &u, the address of the one
\* range variable of the loop (go.mod: go 1.16), so every key reads the position
\* of the upstream that the variable held last.
UpstreamIndex(ups) == [id \in {ups[i].Identifier : i \in 1..Len(ups)} |-> Len(ups)]

LoadManifest(f) ==
    LET ups == [i \in 1..Len(f.Upstreams) |->
                    [f.Upstreams[i] EXCEPT !.Annotations = DefaultAnnotations(@)]]
        err == ValidateUnique(ups, 1, {})
    IN IF err # NoError
       THEN [m |-> NoManifest, err |-> err]
       ELSE [m |-> [nil |-> FALSE,
                    Annotations |-> DefaultAnnotations(f.Annotations),
                    Upstreams |-> ups,
                    PrefixPath |-> f.PrefixPath,
                    upstreamIndex |-> UpstreamIndex(ups)],
             err |-> NoError]

\* ---------------------------------------------------------------- options

NoMiddleware == [id \in {} |-> <<>>]

\* newMountConfig: the error log defaults to a logger that discards, the
\* middleware map to an empty map.
newMountConfig ==
    [observe |-> FALSE, root |-> <<>>, middleware |-> NoMiddleware,
     errorHandler |-> FALSE, errorLog |-> "discard",
     requestModifier |-> FALSE, responseModifier |-> FALSE,
     notFoundHandler |-> FALSE, keepTrailingSlashes |-> FALSE]

\* The arguments the callers of this model give to WithUpstreamMiddleware: a
\* stack of two for "accounts", a stack of one for "widgets", and a stack for an
\* identifier no manifest declares.
MiddlewareArgs ==
    { <<"accounts", <<"A", "B">> >>, <<"widgets", <<"B">> >>, <<"ghost", <<"A">> >> }

\* ------------------------------------------------------------------ state

VARIABLES
    file,       \* the decoded manifest file LoadManifest is given
    pc,         \* where the program is: "start", "loadFailed", "loaded", "opts",
                \* "mounting", "failed", "serving" (New returned a Proxy),
                \* "mounted" (Mount returned nil)
    manifest,   \* the *Manifest LoadManifest returned
    loadErr,    \* the error LoadManifest returned
    entry,      \* the entry point called: "none", "New" or "Mount"
    cfg,        \* the mountConfig
    nopts,      \* options applied so far by the loop over opts (0 once it is over)
    proxy,      \* the *Proxy New is building and returns
    router,     \* the router the routes go to: New's own chi router, or the router
                \* the caller hands to Mount
    next,       \* position of New's loop over m.Upstreams
    built,      \* the ReverseProxy values constructed so far, one per upstream mounted
    err,        \* the error New / Mount returned
    last,       \* the last call on the Proxy and what happened: a request served,
                \* or the value Root() or Upstreams() returned
    inflight,   \* the requests being handled at once, by goroutine, each with
                \* the handler it has reached
    mux         \* a passutil.ServeMux: the patterns of its http.ServeMux, the calls
                \* of Method made on it, and the last request it served

vars == <<file, pc, manifest, loadErr, entry, cfg, nopts, proxy, router, next, built, err, last, inflight, mux>>

NilProxy == [nil |-> TRUE, root |-> <<>>]

NewRouter == [routes |-> <<>>, notFound |-> FALSE]

NoRequest == [served |-> FALSE]

\* The goroutines net/http serves requests on, and one that serves none.
Goroutines == 1..MaxInflight

Idle == [stage |-> "idle"]

\* No passutil.ServeMux made yet.
NoServeMux == [made |-> FALSE]

Init ==
    /\ file \in ManifestFiles
    /\ pc = "start"
    /\ manifest = NoManifest
    /\ loadErr = NoError
    /\ entry = "none"
    /\ cfg = newMountConfig
    /\ nopts = 0
    /\ proxy = NilProxy
    /\ router = NewRouter
    /\ next = 0
    /\ built = <<>>
    /\ err = NoError
    /\ last = NoRequest
    /\ inflight = [g \in Goroutines |-> Idle]
    /\ mux = NoServeMux

\* m, err := pass.LoadManifest(manifestPath, nil)
Load ==
    /\ pc = "start"
    /\ LET res == LoadManifest(file)
       IN /\ manifest' = res.m
          /\ loadErr' = res.err
          /\ pc' = IF res.err = NoError THEN "loaded" ELSE "loadFailed"
    /\ UNCHANGED <<file, entry, cfg, nopts, proxy, router, next, built, err, last, inflight, mux>>

\* The caller enters New: cfg := newMountConfig().
NewEnter ==
    /\ pc = "loaded"
    /\ entry' = "New"
    /\ cfg' = newMountConfig
    /\ pc' = "opts"
    /\ UNCHANGED <<file, manifest, loadErr, nopts, proxy, router, next, built, err, last, inflight, mux>>

\* The caller enters Mount with a router of its own (empty here).  Mount shares
\* the route compiler with New: the same options, verification and loop over
\* the upstreams, with mount registering on the caller's router.
MountEnter ==
    /\ pc = "loaded"
    /\ entry' = "Mount"
    /\ cfg' = newMountConfig
    /\ pc' = "opts"
    /\ UNCHANGED <<file, manifest, loadErr, nopts, proxy, router, next, built, err, last, inflight, mux>>

\* One turn of `for _, o := range opts { o(&cfg) }` with option o.
ApplyOption(c) ==
    /\ pc = "opts"
    /\ nopts < MaxOpts
    /\ cfg' = c
    /\ nopts' = nopts + 1
    /\ UNCHANGED <<file, pc, manifest, loadErr, entry, proxy, router, next, built, err, last, inflight, mux>>

WithObserveFunction == ApplyOption([cfg EXCEPT !.observe = TRUE])

WithRoot == ApplyOption([cfg EXCEPT !.root = <<"/", "root">>])

WithErrorLog == ApplyOption([cfg EXCEPT !.errorLog = "custom"])

WithResponseModifier == ApplyOption([cfg EXCEPT !.responseModifier = TRUE])

WithUpstreamMiddleware(upstream, m) ==
    ApplyOption([cfg EXCEPT !.middleware = (upstream :> m) @@ @])

WithErrorHandler == ApplyOption([cfg EXCEPT !.errorHandler = TRUE])

WithRequestModifier == ApplyOption([cfg EXCEPT !.requestModifier = TRUE])

WithNotFound == ApplyOption([cfg EXCEPT !.notFoundHandler = TRUE])

KeepTrailingSlashes == ApplyOption([cfg EXCEPT !.keepTrailingSlashes = TRUE])

\* ------------------------------------------------------------ compilation

\* New without the loop that verifies the middleware identifiers.
MissingNone(c, m) == {}

\* The keys of cfg.middleware that the loop at the head of New finds missing
\* from m.upstreamIndex.
MissingUpstreams(c, m) == {k \in DOMAIN c.middleware : k \notin DOMAIN m.upstreamIndex}

\* newReverseProxy without the test of dest.Scheme.
newReverseProxyUnchecked(u, c) ==
    LET dest == ParseURL(u.Destination)
    IN IF dest.err
       THEN [err |-> Errorf("parse", u.Destination)]
       ELSE [err |-> NoError,
             target |-> dest,
             destHost |-> dest.Host,
             modifier |-> c.requestModifier,
             ErrorLog |-> c.errorLog,
             ModifyResponse |-> c.responseModifier,
             ErrorHandler |-> c.errorHandler,
             FlushInterval |-> FlushInterval(u.FlushIntervalMS)]

\* newReverseProxy: the destination is parsed, a missing scheme is an error, and
\* the ReverseProxy gets the director and the configured hooks.
newReverseProxy(u, c) ==
    LET dest == ParseURL(u.Destination)
    IN IF dest.err
       THEN [err |-> Errorf("parse", u.Destination)]
       ELSE IF dest.Scheme = ""
            THEN [err |-> Errorf("missing scheme", u.Destination)]
            ELSE [err |-> NoError,
                  target |-> dest,
                  destHost |-> dest.Host,
                  modifier |-> c.requestModifier,
                  ErrorLog |-> c.errorLog,
                  ModifyResponse |-> c.responseModifier,
                  ErrorHandler |-> c.errorHandler,
                  FlushInterval |-> FlushInterval(u.FlushIntervalMS)]

\* router.Method on the chi tree: the endpoint of a (method, pattern) pair that
\* is registered again is replaced.
Method(routes, e) ==
    IF \E i \in 1..Len(routes) : routes[i].method = e.method /\ routes[i].pattern = e.pattern
    THEN [i \in 1..Len(routes) |->
            IF routes[i].method = e.method /\ routes[i].pattern = e.pattern
            THEN e ELSE routes[i]]
    ELSE Append(routes, e)

\* What the observe closure of a registration reads at request time.  `rt` and
\* `method` are the range variables of their for statements, one variable per
\* statement (go.mod: go 1.16): once the loops have run they hold the last
\* route of the upstream and the last method of the route the closure was made
\* under.  `prefix` is declared in the loop body and `u` is mount's parameter.
\* The closure holds `u` as the position of the upstream in the manifest (mount
\* was given a copy of it, and nothing writes to either) and `rt` as a position
\* in u.Routes.
ObserveClosure(m, k, i, prefix) ==
    [method |-> Last(m.Upstreams[k].Routes[i].Methods),
     rt |-> Len(m.Upstreams[k].Routes),
     prefix |-> prefix,
     u |-> k]

\* mount's loops over upstream k of the manifest, from route i, method j: one
\* router.Method per method of each route, the handler being
\* StripPrefix(prefix, proxyHandler(rproxy, observe)) behind the middleware of
\* the group.  rproxy is the position of the upstream's ReverseProxy in built.
RECURSIVE mountRoutes(_, _, _, _, _, _, _, _)
mountRoutes(routes, rootPath, m, k, rproxy, mws, i, j) ==
    LET u == m.Upstreams[k]
    IN IF i > Len(u.Routes) THEN routes
       ELSE IF j > Len(u.Routes[i].Methods)
            THEN mountRoutes(routes, rootPath, m, k, rproxy, mws, i + 1, 1)
            ELSE LET prefix == Join(<<rootPath, u.PrefixPath>>)
                     e == [method |-> u.Routes[i].Methods[j],
                           pattern |-> Join(<<prefix, u.Routes[i].Path>>),
                           mws |-> mws,
                           prefix |-> prefix,
                           rproxy |-> rproxy,
                           observe |-> ObserveClosure(m, k, i, prefix)]
                 IN mountRoutes(Method(routes, e), rootPath, m, k, rproxy, mws, i, j + 1)

\* Middleware put on the router itself instead of the group of its upstream:
\* every upstream gets a configured stack.
GroupMiddlewareShared(c, u) ==
    IF DOMAIN c.middleware = {} THEN <<>>
    ELSE c.middleware[CHOOSE k \in DOMAIN c.middleware : TRUE]

\* The middleware stack the group of upstream u uses.
GroupMiddleware(c, u) ==
    IF u.Identifier \in DOMAIN c.middleware THEN c.middleware[u.Identifier] ELSE <<>>

\* The head of New and Mount, after the options: the middleware identifiers are
\* verified, then the Proxy is made and the not-found handler installed.
Verify ==
    /\ pc = "opts"
    /\ IF MissingUpstreams(cfg, manifest) # {}
       THEN /\ \E k \in MissingUpstreams(cfg, manifest) :
                  err' = Errorf(ErrMissingUpstreamForMiddleware, k)
            /\ pc' = "failed"
            /\ UNCHANGED <<proxy, router, next>>
       ELSE /\ proxy' = IF entry = "New"
                        THEN [nil |-> FALSE, root |-> Join(<<cfg.root, manifest.PrefixPath>>)]
                        ELSE proxy
            /\ router' = [router EXCEPT !.notFound = cfg.notFoundHandler]
            /\ next' = 1
            /\ pc' = "mounting"
            /\ err' = err
    /\ nopts' = 0
    /\ UNCHANGED <<file, manifest, loadErr, entry, cfg, built, last, inflight, mux>>

\* The loop over m.Upstreams handing mount the manifest's prefix alone, without
\* the root given by WithRoot.
MountUpstreamUnrooted ==
    /\ pc = "mounting"
    /\ next <= Len(manifest.Upstreams)
    /\ LET u == manifest.Upstreams[next]
           rootPath == Join(<<manifest.PrefixPath>>)
           rproxy == newReverseProxy(u, cfg)
       IN IF rproxy.err # NoError
          THEN /\ err' = rproxy.err
               /\ pc' = "failed"
               /\ proxy' = NilProxy
               /\ UNCHANGED <<router, next, built>>
          ELSE /\ router' = [router EXCEPT !.routes =
                                mountRoutes(@, rootPath, manifest, next, Len(built) + 1,
                                            GroupMiddleware(cfg, u), 1, 1)]
               /\ built' = Append(built, rproxy)
               /\ next' = next + 1
               /\ UNCHANGED <<err, pc, proxy>>
    /\ UNCHANGED <<file, manifest, loadErr, entry, cfg, nopts, last, inflight, mux>>

\* One turn of the loop over m.Upstreams: the group, its middleware and mount.
MountUpstream ==
    /\ pc = "mounting"
    /\ next <= Len(manifest.Upstreams)
    /\ LET u == manifest.Upstreams[next]
           rootPath == Join(<<cfg.root, manifest.PrefixPath>>)
           rproxy == newReverseProxy(u, cfg)
       IN IF rproxy.err # NoError
          THEN /\ err' = rproxy.err
               /\ pc' = "failed"
               /\ proxy' = NilProxy
               /\ UNCHANGED <<router, next, built>>
          ELSE /\ router' = [router EXCEPT !.routes =
                                mountRoutes(@, rootPath, manifest, next, Len(built) + 1,
                                            GroupMiddleware(cfg, u), 1, 1)]
               /\ built' = Append(built, rproxy)
               /\ next' = next + 1
               /\ UNCHANGED <<err, pc, proxy>>
    /\ UNCHANGED <<file, manifest, loadErr, entry, cfg, nopts, last, inflight, mux>>

\* return proxy, nil
Return ==
    /\ pc = "mounting"
    /\ next > Len(manifest.Upstreams)
    /\ pc' = IF entry = "New" THEN "serving" ELSE "mounted"
    /\ UNCHANGED <<file, manifest, loadErr, entry, cfg, nopts, proxy, router, next, built, err, last, inflight, mux>>

\* ---------------------------------------------------------------- serving

\* A token of a chi pattern that is a parameter.
IsParam(tok) == tok = "{id}"

\* Whether the chi tree matches path under pattern: a static token by equality,
\* a parameter by one segment that is not empty (a token that is no "/").
RECURSIVE Match(_, _)
Match(pattern, path) ==
    IF pattern = <<>> \/ path = <<>> THEN pattern = path
    ELSE /\ IF IsParam(Head(pattern)) THEN Head(path) # "/" ELSE Head(pattern) = Head(path)
         /\ Match(Tail(pattern), Tail(path))

\* The tree tries a static child before a parameter child at every node: of two
\* patterns that match a path, the one that is static at the first place where
\* they differ in kind is found first.
Before(p, q) ==
    \E i \in 1..Len(p) :
        /\ i <= Len(q)
        /\ \A j \in 1..(i - 1) : IsParam(p[j]) = IsParam(q[j])
        /\ ~IsParam(p[i])
        /\ IsParam(q[i])

\* A tree that finds the endpoints of a path whatever their method.
EndpointsOfPath(routes, method, path) ==
    {i \in 1..Len(routes) : Match(routes[i].pattern, path)}

\* The endpoints of the method whose pattern matches the path.
Endpoints(routes, method, path) ==
    {i \in 1..Len(routes) : routes[i].method = method /\ Match(routes[i].pattern, path)}

\* tree.FindRoute: the position of the endpoint found, or 0.
FindRoute(routes, method, path) ==
    LET c == Endpoints(routes, method, path)
    IN IF c = {} THEN 0
       ELSE CHOOSE i \in c : \A j \in c \ {i} : ~Before(routes[j].pattern, routes[i].pattern)

\* A router that knows no 405: every request without an endpoint is not found.
MethodAlwaysFound(routes, method, path) == FALSE

\* The tree reached a leaf that has no endpoint for the method.
MethodNotAllowed(routes, method, path) ==
    /\ Endpoints(routes, method, path) = {}
    /\ \E i \in 1..Len(routes) : Match(routes[i].pattern, path)

\* What the environment decides for one request: which of the configured
\* middleware (if any) answers by itself instead of calling next, whether the
\* transport fails, and whether the configured response modifier returns an error.
Environments(c) ==
    [blocker : {"none"} \cup UNION {Range(c.middleware[k]) : k \in DOMAIN c.middleware},
     transport : {"ok", "fail"},
     respMod : IF c.responseModifier THEN {"ok", "error"} ELSE {"ok"}]

NoRouteInfo ==
    [RouteMethod |-> "", RoutePath |-> <<>>, RoutePrefix |-> <<>>,
     UpstreamHost |-> "", UpstreamIdentifier |-> "", UpstreamOwner |-> ""]

\* The Host header of the requests the Proxy receives: its own name.
InboundHost == "pass.local"

\* The record of a request before anything has handled it.
Arrived(method, path) ==
    [served |-> TRUE, method |-> method, path |-> path,
     route |-> 0,            \* position of the endpoint chi found, 0 for none
     events |-> <<>>,        \* what ran, in order
     entered |-> <<>>,       \* the middleware that ran, in order
     hooked |-> 0,           \* calls of the observe function
     info |-> NoRouteInfo,   \* the RouteInfo of the last call
     sent |-> FALSE,         \* the director ran and the transport was given the request
     delivered |-> FALSE,    \* the destination received the request
     outURLHost |-> "",      \* outgoing URL host
     outHost |-> InboundHost, \* r.Host: the Host header, the inbound one at first
     outPath |-> <<>>,       \* outgoing URL path
     outModified |-> FALSE,  \* the request modifier changed the outgoing request
     modifierSaw |-> "",     \* r.Host as the request modifier found it
     respModified |-> FALSE, \* the response modifier changed the response
     logged |-> <<>>,        \* error-log sinks written to
     status |-> 0,
     responder |-> ""]

\* An error handler that is called in addition to the default one.
getErrorHandlerAdditive(rproxy, r) ==
    LET d == [r EXCEPT !.events = Append(@, "defaultErrorHandler"),
                       !.logged = Append(@, rproxy.ErrorLog),
                       !.status = 502, !.responder = "defaultErrorHandler"]
    IN IF rproxy.ErrorHandler
       THEN [d EXCEPT !.events = Append(@, "errorHandler"), !.responder = "errorHandler"]
       ELSE d

\* The error handler of the ReverseProxy: the configured one, which owns the
\* response, or the default, which logs and answers 502.
getErrorHandler(rproxy, r) ==
    IF rproxy.ErrorHandler
    THEN [r EXCEPT !.events = Append(@, "errorHandler"),
                   !.status = 418, !.responder = "errorHandler"]
    ELSE [r EXCEPT !.events = Append(@, "defaultErrorHandler"),
                   !.logged = Append(@, rproxy.ErrorLog),
                   !.status = 502, !.responder = "defaultErrorHandler"]

\* base(r): the director of NewSingleHostReverseProxy sets the URL of the
\* outgoing request from the target and leaves r.Host as it came in.
baseDirector(rproxy, r, path) ==
    [r EXCEPT !.events = Append(@, "director"),
              !.outURLHost = rproxy.target.Host,
              !.outPath = SingleJoiningSlash(rproxy.target.Path, path)]

\* r.Host = destHost
hostRewrite(rproxy, r) ==
    [r EXCEPT !.events = Append(@, "host"), !.outHost = rproxy.destHost]

\* if modifier != nil { modifier(r) }: the modifier of the model reads r.Host
\* and adds a header.
applyModifier(rproxy, r) ==
    IF rproxy.modifier
    THEN [r EXCEPT !.events = Append(@, "modifier"),
                   !.modifierSaw = r.outHost,
                   !.outModified = TRUE]
    ELSE r

\* A director that calls the request modifier before it overrides r.Host.
DirectorModifierFirst(rproxy, r, path) ==
    hostRewrite(rproxy, applyModifier(rproxy, baseDirector(rproxy, r, path)))

\* A director that drops the request modifier.
DirectorUnmodified(rproxy, r, path) ==
    hostRewrite(rproxy, baseDirector(rproxy, r, path))

\* The director setDirector installs: the default director of
\* NewSingleHostReverseProxy, the host override, then the request modifier.
Director(rproxy, r, path) ==
    applyModifier(rproxy, hostRewrite(rproxy, baseDirector(rproxy, r, path)))

\* A ReverseProxy that answers an error of the response modifier itself, with
\* 502, whatever error handler is configured.
ReverseProxyServeHTTPOwnError(rproxy, r0, path, env) ==
    LET r1 == [Director(rproxy, r0, path) EXCEPT !.sent = TRUE,
                                                 !.events = Append(@, "transport")]
    IN IF env.transport = "fail" THEN getErrorHandler(rproxy, r1)
       ELSE LET r2 == [r1 EXCEPT !.delivered = TRUE]
            IN IF ~rproxy.ModifyResponse
               THEN [r2 EXCEPT !.status = 200, !.responder = "upstream"]
               ELSE LET r3 == [r2 EXCEPT !.events = Append(@, "modifyResponse")]
                    IN IF env.respMod = "error"
                       THEN [r3 EXCEPT !.status = 502, !.responder = "defaultErrorHandler"]
                       ELSE [r3 EXCEPT !.respModified = TRUE,
                                       !.status = 200, !.responder = "upstream"]

\* httputil.ReverseProxy.ServeHTTP: director, round trip, response modifier,
\* copy of the response; an error of the round trip or of the modifier goes to
\* the error handler.
ReverseProxyServeHTTP(rproxy, r0, path, env) ==
    LET r1 == [Director(rproxy, r0, path) EXCEPT !.sent = TRUE,
                                                 !.events = Append(@, "transport")]
    IN IF env.transport = "fail" THEN getErrorHandler(rproxy, r1)
       ELSE LET r2 == [r1 EXCEPT !.delivered = TRUE]
            IN IF ~rproxy.ModifyResponse
               THEN [r2 EXCEPT !.status = 200, !.responder = "upstream"]
               ELSE LET r3 == [r2 EXCEPT !.events = Append(@, "modifyResponse")]
                    IN IF env.respMod = "error" THEN getErrorHandler(rproxy, r3)
                       ELSE [r3 EXCEPT !.respModified = TRUE,
                                       !.status = 200, !.responder = "upstream"]

\* The RouteInfo the observe closure builds from the variables it captured.
RouteInfo(m, closure) ==
    LET u == m.Upstreams[closure.u]
    IN [RouteMethod |-> closure.method,
        RoutePath |-> u.Routes[closure.rt].Path,
        RoutePrefix |-> closure.prefix,
        UpstreamHost |-> u.Destination,
        UpstreamIdentifier |-> u.Identifier,
        UpstreamOwner |-> u.Owner]

\* proxyHandler calling observe when the ReverseProxy has returned.
proxyHandlerObserveAfter(e, c, r, path, env) ==
    LET r1 == ReverseProxyServeHTTP(built[e.rproxy], r, path, env)
    IN IF c.observe
       THEN [r1 EXCEPT !.events = Append(@, "observe"),
                       !.hooked = @ + 1,
                       !.info = RouteInfo(manifest, e.observe)]
       ELSE r1

\* proxyHandler without the call of observe.
proxyHandlerUnobserved(e, c, r, path, env) ==
    ReverseProxyServeHTTP(built[e.rproxy], r, path, env)

\* proxyHandler: observe(r), then proxy.ServeHTTP(w, r).
proxyHandler(e, c, r, path, env) ==
    LET r1 == IF c.observe
              THEN [r EXCEPT !.events = Append(@, "observe"),
                             !.hooked = @ + 1,
                             !.info = RouteInfo(manifest, e.observe)]
              ELSE r
    IN ReverseProxyServeHTTP(built[e.rproxy], r1, path, env)

\* The handler registered without http.StripPrefix around it.
StripPrefixMissing(e, c, r, env) == proxyHandler(e, c, r, r.path, env)

\* http.StripPrefix(prefix, h): h itself for an empty prefix; else h on the
\* path without the prefix, or 404 when the path does not start with it.
StripPrefix(e, c, r, env) ==
    IF e.prefix = <<>> THEN proxyHandler(e, c, r, r.path, env)
    ELSE IF Len(TrimPrefix(r.path, e.prefix)) < Len(r.path)
         THEN proxyHandler(e, c, [r EXCEPT !.events = Append(@, "strip")],
                           TrimPrefix(r.path, e.prefix), env)
         ELSE [r EXCEPT !.status = 404, !.responder = "http.NotFound"]

\* The middleware of the group around the handler, first declared outermost;
\* a middleware that does not call next ends the request.
RECURSIVE Chain(_, _, _, _, _)
Chain(mws, e, c, r, env) ==
    IF mws = <<>> THEN StripPrefix(e, c, r, env)
    ELSE LET r1 == [r EXCEPT !.events = Append(@, Head(mws)),
                             !.entered = Append(@, Head(mws))]
         IN IF env.blocker = Head(mws)
            THEN [r1 EXCEPT !.status = 401, !.responder = "middleware"]
            ELSE Chain(Tail(mws), e, c, r1, env)

\* chi's Mux.routeHTTP: the endpoint found serves; else the method-not-allowed
\* handler (405) or the not-found handler (the configured one, or 404).
routeHTTP(rt, c, method, path, env) ==
    LET r == Arrived(method, path)
        i == FindRoute(rt.routes, method, path)
    IN IF i # 0 THEN Chain(rt.routes[i].mws, rt.routes[i], c, [r EXCEPT !.route = i], env)
       ELSE IF MethodNotAllowed(rt.routes, method, path)
            THEN [r EXCEPT !.status = 405, !.responder = "chi.MethodNotAllowed"]
            ELSE IF rt.notFound
                 THEN [r EXCEPT !.status = 200, !.responder = "notFoundHandler"]
                 ELSE [r EXCEPT !.status = 404, !.responder = "chi.NotFound"]

\* Requests: a method, and a path made of some of the prefixes and a tail.
RequestMethods == {"GET", "POST"}

RequestPaths ==
    { root \o api \o private \o tail :
        root \in {<<>>, <<"/", "root">>},
        api \in {<<>>, <<"/", "api">>},
        private \in {<<>>, <<"/", "private">>},
        tail \in { <<"/", "accounts">>, <<"/", "accounts", "/", "1">>,
                   <<"/", "accounts", "/">>, <<"/", "widgets">> } }

\* Proxy.ServeHTTP for one request.
ServeHTTP(method, path, env) ==
    /\ pc = "serving"
    /\ ~last.served
    /\ last' = routeHTTP(router, cfg, method, path, env)
    /\ UNCHANGED <<file, pc, manifest, loadErr, entry, cfg, nopts, proxy, router, next, built, err, inflight, mux>>

\* The response has been written and the request is over: the Proxy is as it
\* was before the request.
Finish ==
    /\ pc = "serving"
    /\ last.served
    /\ last' = NoRequest
    /\ UNCHANGED <<file, pc, manifest, loadErr, entry, cfg, nopts, proxy, router, next, built, err, inflight, mux>>

\* ------------------------------------------------ requests handled at once

\* The manifests of the concurrent runs: "accounts" and a second upstream,
\* under the manifest prefix "/api/".
ConcFiles ==
    { f \in ManifestFiles :
        /\ f.PrefixPath # <<>>
        /\ Len(f.Upstreams) = 2
        /\ f.Upstreams[1].Identifier = "accounts"
        /\ f.Upstreams[2].Identifier = "widgets" }

\* The requests of the concurrent runs.
ConcPaths ==
    { <<"/", "api", "/", "private", "/", "accounts", "/", "1">>,
      <<"/", "api", "/", "private", "/", "accounts">>,
      <<"/", "api", "/", "widgets">>,
      <<"/", "api", "/", "accounts">> }

\* The environment of a request that reaches no endpoint.
NoEnvironment == [blocker |-> "none", transport |-> "ok", respMod |-> "ok"]

InitConc ==
    /\ file \in ConcFiles
    /\ pc = "start"
    /\ manifest = NoManifest
    /\ loadErr = NoError
    /\ entry = "none"
    /\ cfg = newMountConfig
    /\ nopts = 0
    /\ proxy = NilProxy
    /\ router = NewRouter
    /\ next = 0
    /\ built = <<>>
    /\ err = NoError
    /\ last = NoRequest
    /\ inflight = [g \in Goroutines |-> Idle]
    /\ mux = NoServeMux

\* net/http starts a goroutine for a request and calls Proxy.ServeHTTP.
Accept(g, method, path) ==
    /\ pc = "serving"
    /\ inflight[g].stage = "idle"
    /\ inflight' = [inflight EXCEPT ![g] =
            [stage |-> "accepted", method |-> method, path |-> path,
             env |-> NoEnvironment, r |-> Arrived(method, path)]]
    /\ UNCHANGED <<file, pc, manifest, loadErr, entry, cfg, nopts, proxy, router, next, built, err, last, mux>>

\* The answer of the router to a request without endpoint: 405, the not-found
\* handler, or 404.
routeMiss(rt, r) ==
    IF MethodNotAllowed(rt.routes, r.method, r.path)
    THEN [r EXCEPT !.status = 405, !.responder = "chi.MethodNotAllowed"]
    ELSE IF rt.notFound
         THEN [r EXCEPT !.status = 200, !.responder = "notFoundHandler"]
         ELSE [r EXCEPT !.status = 404, !.responder = "chi.NotFound"]

\* The router looks the request up in the tree and answers itself when there
\* is no endpoint for it.
RouteStep(g) ==
    /\ pc = "serving"
    /\ inflight[g].stage = "accepted"
    /\ LET r == inflight[g].r
           i == FindRoute(router.routes, r.method, r.path)
       IN inflight' = [inflight EXCEPT ![g] =
              IF i # 0
              THEN [@ EXCEPT !.stage = "routed", !.r = [r EXCEPT !.route = i]]
              ELSE [@ EXCEPT !.stage = "written", !.r = routeMiss(router, r)]]
    /\ UNCHANGED <<file, pc, manifest, loadErr, entry, cfg, nopts, proxy, router, next, built, err, last, mux>>

\* A handler that reads the request from a place all goroutines write to: it
\* gets the request of the first goroutine that has one routed.
RequestShared(g) ==
    inflight[CHOOSE h \in Goroutines :
                /\ inflight[h].stage = "routed"
                /\ \A k \in Goroutines : inflight[k].stage = "routed" => h <= k].r

\* The *http.Request a handler is called with: the one of its own goroutine.
Request(g) == inflight[g].r

\* The endpoint serves: the middleware of the group, StripPrefix, observe and
\* the ReverseProxy, on the request of this goroutine.
HandleStep(g, env) ==
    /\ pc = "serving"
    /\ inflight[g].stage = "routed"
    /\ LET r == Request(g)
           e == router.routes[r.route]
       IN inflight' = [inflight EXCEPT ![g] =
              [@ EXCEPT !.stage = "written", !.env = env,
                        !.r = Chain(e.mws, e, cfg, r, env)]]
    /\ UNCHANGED <<file, pc, manifest, loadErr, entry, cfg, nopts, proxy, router, next, built, err, last, mux>>

\* The response is written and the goroutine ends.
Done(g) ==
    /\ pc = "serving"
    /\ inflight[g].stage = "written"
    /\ inflight' = [inflight EXCEPT ![g] = Idle]
    /\ UNCHANGED <<file, pc, manifest, loadErr, entry, cfg, nopts, proxy, router, next, built, err, last, mux>>

NextConc ==
    \/ Load
    \/ NewEnter
    \/ WithObserveFunction
    \/ WithErrorHandler
    \/ \E a \in MiddlewareArgs : WithUpstreamMiddleware(a[1], a[2])
    \/ Verify
    \/ MountUpstream
    \/ Return
    \/ \E g \in Goroutines, method \in RequestMethods, path \in ConcPaths :
          Accept(g, method, path)
    \/ \E g \in Goroutines : RouteStep(g)
    \/ \E g \in Goroutines, env \in Environments(cfg) : HandleStep(g, env)
    \/ \E g \in Goroutines : Done(g)

SpecConc == InitConc /\ [][NextConc]_vars

\* ------------------------------------------------------- passutil.ServeMux

\* Calls of ServeMux.Method made on one ServeMux.
MaxCalls == 3

\* The paths registered on the ServeMux, and one more that is requested.
MuxPaths == { <<"/", "accounts">>, <<"/", "widgets">> }

MuxRequestPaths == MuxPaths \cup { <<"/", "other">> }

InitMux ==
    /\ file = [Annotations |-> NilMap, Upstreams |-> <<>>, PrefixPath |-> <<>>]
    /\ pc = "start"
    /\ manifest = NoManifest
    /\ loadErr = NoError
    /\ entry = "none"
    /\ cfg = newMountConfig
    /\ nopts = 0
    /\ proxy = NilProxy
    /\ router = NewRouter
    /\ next = 0
    /\ built = <<>>
    /\ err = NoError
    /\ last = NoRequest
    /\ inflight = [g \in Goroutines |-> Idle]
    /\ mux = NoServeMux

\* NewServeMux(http.NewServeMux()): an empty mux and the default handler for
\* 405.
NewServeMux ==
    /\ ~mux.made
    /\ mux' = [made |-> TRUE,
               MethodNotAllowed |-> "defaultMethodNotAllowed",
               entries |-> <<>>,      \* the patterns of the http.ServeMux
               calls |-> <<>>,        \* the calls of Method, in order
               panic |-> <<>>,        \* the pattern http.ServeMux panicked on
               served |-> FALSE]
    /\ UNCHANGED <<file, pc, manifest, loadErr, entry, cfg, nopts, proxy, router, next, built, err, last, inflight>>

\* The caller overrides the exported field MethodNotAllowed.
SetMethodNotAllowed ==
    /\ mux.made
    /\ mux.panic = <<>>
    /\ mux.MethodNotAllowed = "defaultMethodNotAllowed"
    /\ mux' = [mux EXCEPT !.MethodNotAllowed = "custom", !.served = FALSE]
    /\ UNCHANGED <<file, pc, manifest, loadErr, entry, cfg, nopts, proxy, router, next, built, err, last, inflight>>

\* http.ServeMux.Handle: panics ("http: multiple registrations for ...") when
\* the pattern is registered already, else adds the entry.
HandleFunc(entries, e) ==
    IF \E i \in 1..Len(entries) : entries[i].pattern = e.pattern
    THEN [ok |-> FALSE, entries |-> entries]
    ELSE [ok |-> TRUE, entries |-> Append(entries, e)]

\* ServeMux.Method(method, path, handler): one HandleFunc on the path with a
\* closure over the method, the handler and the MethodNotAllowed of the moment.
ServeMuxMethod(method, path) ==
    /\ mux.made
    /\ mux.panic = <<>>
    /\ Len(mux.calls) < MaxCalls
    /\ LET handler == Len(mux.calls) + 1
           res == HandleFunc(mux.entries,
                             [pattern |-> path, method |-> method, handler |-> handler,
                              notAllowed |-> mux.MethodNotAllowed])
       IN mux' = [mux EXCEPT
                     !.calls = Append(@, [method |-> method, path |-> path,
                                          handler |-> handler]),
                     !.entries = res.entries,
                     !.panic = IF res.ok THEN <<>> ELSE path,
                     !.served = FALSE]
    /\ UNCHANGED <<file, pc, manifest, loadErr, entry, cfg, nopts, proxy, router, next, built, err, last, inflight>>

\* The closure Method registered: the handler under its method, notAllowed
\* under another.
methodClosure(e, method) ==
    IF e.method = method
    THEN [status |-> 200, responder |-> "handler", handler |-> e.handler]
    ELSE [status |-> 405, responder |-> e.notAllowed, handler |-> 0]

\* The ServeMux serves a request: the closure of the pattern that is the path,
\* or http.NotFound.
ServeMuxServeHTTP(method, path) ==
    /\ mux.made
    /\ mux.panic = <<>>
    /\ LET hit == {i \in 1..Len(mux.entries) : mux.entries[i].pattern = path}
           res == IF hit = {}
                  THEN [status |-> 404, responder |-> "http.NotFound", handler |-> 0]
                  ELSE methodClosure(mux.entries[CHOOSE i \in hit : TRUE], method)
       IN mux' = [mux EXCEPT !.served = TRUE] @@
                 [method |-> method, path |-> path, status |-> res.status,
                  responder |-> res.responder, handler |-> res.handler]
    /\ UNCHANGED <<file, pc, manifest, loadErr, entry, cfg, nopts, proxy, router, next, built, err, last, inflight>>

NextMux ==
    \/ NewServeMux
    \/ SetMethodNotAllowed
    \/ \E method \in RequestMethods, path \in MuxPaths : ServeMuxMethod(method, path)
    \/ \E method \in RequestMethods, path \in MuxRequestPaths :
          ServeMuxServeHTTP(method, path)

SpecMux == InitMux /\ [][NextMux]_vars

\* --------------------------------------------------------------- accessors

\* Root() handing out p.root as it is stored.
RootStored ==
    /\ pc = "serving"
    /\ ~last.served
    /\ last' = [served |-> FALSE, op |-> "Root", val |-> proxy.root]
    /\ UNCHANGED <<file, pc, manifest, loadErr, entry, cfg, nopts, proxy, router, next, built, err, inflight, mux>>

\* Proxy.Root(): "/" for an empty p.root, else p.root.
Root ==
    /\ pc = "serving"
    /\ ~last.served
    /\ last' = [served |-> FALSE, op |-> "Root",
                val |-> IF proxy.root = <<>> THEN <<"/">> ELSE proxy.root]
    /\ UNCHANGED <<file, pc, manifest, loadErr, entry, cfg, nopts, proxy, router, next, built, err, inflight, mux>>

\* Upstreams() reading each upstream through the identifier index.
UpstreamsByIndex ==
    /\ pc = "serving"
    /\ ~last.served
    /\ last' = [served |-> FALSE, op |-> "Upstreams",
                val |-> [i \in 1..Len(manifest.Upstreams) |->
                            manifest.Upstreams[
                                manifest.upstreamIndex[manifest.Upstreams[i].Identifier]]]]
    /\ UNCHANGED <<file, pc, manifest, loadErr, entry, cfg, nopts, proxy, router, next, built, err, inflight, mux>>

\* Proxy.Upstreams(): p.manifest.Upstreams.
Upstreams ==
    /\ pc = "serving"
    /\ ~last.served
    /\ last' = [served |-> FALSE, op |-> "Upstreams", val |-> manifest.Upstreams]
    /\ UNCHANGED <<file, pc, manifest, loadErr, entry, cfg, nopts, proxy, router, next, built, err, inflight, mux>>

Next ==
    \/ Load
    \/ NewEnter
    \/ MountEnter
    \/ WithObserveFunction
    \/ WithRoot
    \/ WithErrorLog
    \/ WithResponseModifier
    \/ \E a \in MiddlewareArgs : WithUpstreamMiddleware(a[1], a[2])
    \/ WithErrorHandler
    \/ WithRequestModifier
    \/ WithNotFound
    \/ KeepTrailingSlashes
    \/ Verify
    \/ MountUpstream
    \/ Return
    \/ \E method \in RequestMethods, path \in RequestPaths, env \in Environments(cfg) :
          ServeHTTP(method, path, env)
    \/ Finish
    \/ Root
    \/ Upstreams

Spec == Init /\ [][Next]_vars

\* ----------------------------------------------------------------- claims

Ups == manifest.Upstreams

\* New or Mount has returned.
Returned == pc \in {"failed", "serving", "mounted"}

\* A request has been served by the Proxy New returned.
Served == pc = "serving" /\ last.served

\* join(externalRoot, manifest.prefixPath, upstream.prefixPath) of upstream k.
EffectivePrefix(k) == Join(<<cfg.root, manifest.PrefixPath, Ups[k].PrefixPath>>)

\* join(externalRoot, manifest.prefixPath, upstream.prefixPath, route.path).
RoutePattern(k, i) ==
    Join(<<cfg.root, manifest.PrefixPath, Ups[k].PrefixPath, Ups[k].Routes[i].Path>>)

\* Route i of upstream k of the manifest declares the method and matches the path.
Declares(k, i, method, path) ==
    /\ method \in Range(Ups[k].Routes[i].Methods)
    /\ Match(RoutePattern(k, i), path)

\* Some route of the manifest declares the method and matches the path.
Declared(method, path) ==
    \E k \in 1..Len(Ups) : \E i \in 1..Len(Ups[k].Routes) : Declares(k, i, method, path)

\* Some route of the manifest matches the path, under whatever method.
PathDeclared(path) ==
    \E k \in 1..Len(Ups) : \E i \in 1..Len(Ups[k].Routes) : Match(RoutePattern(k, i), path)

\* A route of another upstream than k declares the method and matches the path.
Shadowed(k, method, path) ==
    \E k2 \in 1..Len(Ups) : \E i \in 1..Len(Ups[k2].Routes) :
        k2 # k /\ Declares(k2, i, method, path)

\* The request was handed to upstream k's destination with the effective
\* prefix of k removed from its path.
ForwardedTo(k) ==
    /\ last.sent
    /\ last.outURLHost = ParseURL(Ups[k].Destination).Host
    /\ last.outPath = TrimPrefix(last.path, EffectivePrefix(k))

\* C1 as stated: every request that a route of upstream U declares (method and
\* path under the joined prefix) is forwarded to U's destination, with the
\* effective prefix removed from the path.
C1_Original ==
    Served =>
        \A k \in 1..Len(Ups) : \A i \in 1..Len(Ups[k].Routes) :
            Declares(k, i, last.method, last.path) => ForwardedTo(k)

\* C1 (amended): every request that a route of upstream U declares is
\* dispatched to a compiled endpoint; when no route of another upstream declares
\* the same method and matches the same path, and no middleware of U ends the
\* request, it is forwarded to U's destination with the effective prefix
\* join(root, manifest prefix, U's prefix) removed from the path.
C1_Forwarding ==
    Served =>
        \A k \in 1..Len(Ups) : \A i \in 1..Len(Ups[k].Routes) :
            Declares(k, i, last.method, last.path) =>
                /\ last.route # 0
                /\ (~Shadowed(k, last.method, last.path) /\ last.responder # "middleware")
                        => ForwardedTo(k)

\* C1 witness: GET /api/private/accounts/1 reached accounts.local as /accounts/1.
C1_Witness ==
    /\ Served
    /\ last.path = <<"/", "api", "/", "private", "/", "accounts", "/", "1">>
    /\ last.delivered
    /\ last.outURLHost = "accounts.local"
    /\ last.outPath = <<"/", "accounts", "/", "1">>

\* Identifiers that two upstream blocks of the file share.
DuplicateIds(f) ==
    {f.Upstreams[i].Identifier : i \in
        {i \in 1..Len(f.Upstreams) :
            \E j \in 1..Len(f.Upstreams) :
                j # i /\ f.Upstreams[j].Identifier = f.Upstreams[i].Identifier}}

\* C2: LoadManifest fails exactly for the files in which two upstreams share an
\* identifier, with the duplicate-identifier error naming a shared identifier
\* and no Manifest; it succeeds when the identifiers are distinct.
C2_DuplicateIdentifier ==
    pc # "start" =>
        IF DuplicateIds(file) # {}
        THEN /\ pc = "loadFailed"
             /\ manifest.nil
             /\ loadErr.msg = "duplicate upstream identifier"
             /\ loadErr.arg \in DuplicateIds(file)
        ELSE /\ pc # "loadFailed"
             /\ ~manifest.nil
             /\ loadErr = NoError

\* C2 witness: a load failed on the identifier "widgets".
C2_Witness ==
    /\ pc = "loadFailed"
    /\ loadErr = [msg |-> "duplicate upstream identifier", arg |-> "widgets"]
    /\ manifest.nil

\* The destination of upstream k parses and has no scheme.
NoScheme(k) ==
    /\ ~ParseURL(Ups[k].Destination).err
    /\ ParseURL(Ups[k].Destination).Scheme = ""

\* The destination of upstream k does not parse, or has no scheme.
InvalidDestination(k) == ParseURL(Ups[k].Destination).err \/ NoScheme(k)

\* The identifiers given to WithUpstreamMiddleware that no upstream carries.
UnknownIds == DOMAIN cfg.middleware \ {Ups[k].Identifier : k \in 1..Len(Ups)}

\* C3 as stated: whenever an upstream's destination has no scheme, New returns
\* no Proxy and the missing-scheme error with a scheme-less destination in it.
C3_Original ==
    (Returned /\ entry = "New" /\ \E k \in 1..Len(Ups) : NoScheme(k)) =>
        /\ pc = "failed"
        /\ proxy.nil
        /\ err.msg = "missing scheme"
        /\ \E k \in 1..Len(Ups) : NoScheme(k) /\ err.arg = Ups[k].Destination

\* C3 (amended): whenever an upstream's destination has no scheme, New fails
\* and returns no Proxy; the error is the missing-scheme error with that
\* destination in it when every middleware identifier names an upstream and no
\* earlier upstream has a destination that does not parse or has no scheme.
C3_MissingScheme ==
    (Returned /\ entry = "New") =>
        \A k \in 1..Len(Ups) :
            NoScheme(k) =>
                /\ pc = "failed"
                /\ proxy.nil
                /\ err # NoError
                /\ (UnknownIds = {} /\ \A j \in 1..(k - 1) : ~InvalidDestination(j))
                        => err = [msg |-> "missing scheme", arg |-> Ups[k].Destination]

\* C3 witness: New failed on "noscheme.local" after it had mounted an upstream.
C3_Witness ==
    /\ pc = "failed"
    /\ entry = "New"
    /\ err = [msg |-> "missing scheme", arg |-> "noscheme.local"]
    /\ Len(built) = 1

\* C4: when an identifier given to WithUpstreamMiddleware names no upstream, New
\* fails with the missing-upstream error carrying such an identifier, and no
\* ReverseProxy has been constructed and no route registered at any point of
\* the call.
C4_MiddlewareVerified ==
    (entry = "New" /\ pc # "opts" /\ UnknownIds # {}) =>
        /\ pc = "failed"
        /\ err.msg = "upstream missing for middleware stack"
        /\ err.arg \in UnknownIds
        /\ built = <<>>
        /\ router.routes = <<>>
        /\ proxy.nil

\* C4 witness: New reported the identifier "ghost" although the first upstream
\* has a destination without a scheme.
C4_Witness ==
    /\ pc = "failed"
    /\ entry = "New"
    /\ err = [msg |-> "upstream missing for middleware stack", arg |-> "ghost"]
    /\ Len(Ups) > 0
    /\ NoScheme(1)

C6_Original ==
    (Served /\ cfg.observe) =>
        last.hooked = IF Declared(last.method, last.path) THEN 1 ELSE 0

\* C6 (amended): with an observe function configured, it is called exactly once
\* for every request that a route of the manifest declares and that no
\* middleware of the upstream ends before the forwarding handler, and never for
\* any other request.
C6_ObservedOnce ==
    (Served /\ cfg.observe) =>
        last.hooked = IF Declared(last.method, last.path) /\ last.responder # "middleware"
                      THEN 1 ELSE 0

\* C6 witness: the observe function was called once behind the middleware A, B.
C6_Witness ==
    /\ Served
    /\ cfg.observe
    /\ last.entered = <<"A", "B">>
    /\ last.hooked = 1
    /\ last.delivered

\* C7 as stated: the RouteInfo handed to the observe function names a route
\* (M, R) of an upstream U that declares the request: the method, R's path
\* without prefix, the effective prefix, U's destination, identifier and owner.
C7_RouteInfo ==
    (Served /\ last.hooked > 0) =>
        \E k \in 1..Len(Ups) : \E i \in 1..Len(Ups[k].Routes) :
            /\ Declares(k, i, last.method, last.path)
            /\ last.info = [RouteMethod |-> last.method,
                            RoutePath |-> Ups[k].Routes[i].Path,
                            RoutePrefix |-> EffectivePrefix(k),
                            UpstreamHost |-> Ups[k].Destination,
                            UpstreamIdentifier |-> Ups[k].Identifier,
                            UpstreamOwner |-> Ups[k].Owner]

\* The stack given to WithUpstreamMiddleware for an identifier, empty for none.
Stack(id) == IF id \in DOMAIN cfg.middleware THEN cfg.middleware[id] ELSE <<>>

\* The identifier of the upstream whose mount registered an endpoint.
EndpointUpstream(e) == Ups[e.observe.u].Identifier

\* C8: every endpoint of the compiled table carries the middleware stack given
\* for the identifier of its own upstream and nothing of another upstream's;
\* a request runs that stack in declared order, the first outermost, up to
\* the first middleware that ends the request.
C8_Middleware ==
    pc = "serving" =>
        /\ \A x \in 1..Len(router.routes) :
              router.routes[x].mws = Stack(EndpointUpstream(router.routes[x]))
        /\ (last.served /\ last.route # 0) =>
              LET stack == Stack(EndpointUpstream(router.routes[last.route]))
              IN /\ HasPrefix(stack, last.entered)
                 /\ last.responder # "middleware" => last.entered = stack
                 /\ last.responder = "middleware" => last.entered # <<>>

\* C8 witness: a request for upstream "widgets" ran B alone while "accounts"
\* has the stack A, B.
C8_Witness ==
    /\ Served
    /\ last.route # 0
    /\ DOMAIN cfg.middleware = {"accounts", "widgets"}
    /\ EndpointUpstream(router.routes[last.route]) = "widgets"
    /\ last.entered = <<"B">>
    /\ last.delivered

C10_TransportFailure ==
    (Served /\ last.sent /\ ~last.delivered) =>
        IF cfg.errorHandler
        THEN /\ last.responder = "errorHandler"
             /\ last.logged = <<>>
             /\ last.status # 502
             /\ "defaultErrorHandler" \notin Range(last.events)
        ELSE /\ last.status = 502
             /\ last.logged = <<cfg.errorLog>>
             /\ "errorHandler" \notin Range(last.events)

\* C10 witness: a failed round trip was answered 502 and written to the log
\* given by WithErrorLog.
C10_Witness ==
    /\ Served
    /\ last.sent
    /\ ~last.delivered
    /\ last.status = 502
    /\ last.logged = <<"custom">>

\* How many times an event is in the record of the request served.
Count(ev) == Len(SelectSeq(last.events, LAMBDA e : e = ev))

\* The upstream whose mount registered the endpoint that served the request.
RouteUpstream == router.routes[last.route].observe.u

\* The request was answered by the destination and the answer reached the client.
Answered == Served /\ last.delivered /\ last.responder = "upstream"

\* C11: for every request that is forwarded and answered, a configured request
\* modifier ran exactly once and its change is on the request the destination
\* received, and a configured response modifier ran exactly once and its change
\* is on the response the client received.
C11_Modifiers ==
    Answered =>
        /\ cfg.requestModifier => Count("modifier") = 1 /\ last.outModified
        /\ cfg.responseModifier => Count("modifyResponse") = 1 /\ last.respModified
        /\ ~cfg.requestModifier => Count("modifier") = 0 /\ ~last.outModified
        /\ ~cfg.responseModifier => Count("modifyResponse") = 0 /\ ~last.respModified

\* C11 witness: a request answered with both modifiers configured.
C11_Witness ==
    /\ Answered
    /\ cfg.requestModifier
    /\ cfg.responseModifier
    /\ last.outModified
    /\ last.respModified

\* Root() or Upstreams() was the last call on the Proxy.
Called(op) == pc = "serving" /\ ~last.served /\ "op" \in DOMAIN last /\ last.op = op

\* C12: Root() returns join(external root, manifest prefix), "/" when both are
\* empty, never the empty string and never an upstream's prefix: "/root/api"
\* for root "/root" and manifest prefix "/api/".
C12_Root ==
    Called("Root") =>
        /\ last.val = IF cfg.root = <<>> /\ file.PrefixPath = <<>>
                      THEN <<"/">>
                      ELSE Join(<<cfg.root, file.PrefixPath>>)
        /\ last.val # <<>>
        /\ "private" \notin Range(last.val)
        /\ (cfg.root = <<"/", "root">> /\ file.PrefixPath = <<"/", "api", "/">>)
                => last.val = <<"/", "root", "/", "api">>

\* C12 witness: Root() returned "/" for a manifest without prefix, mounted
\* without root, whose upstream has a prefix of its own.
C12_Witness ==
    /\ Called("Root")
    /\ cfg.root = <<>>
    /\ file.PrefixPath = <<>>
    /\ Len(Ups) > 0
    /\ Ups[1].PrefixPath # <<>>
    /\ last.val = <<"/">>

\* C13: with a root given by WithRoot, a request is dispatched to a route only
\* if its path carries join(root, manifest prefix, upstream prefix) of the
\* route's upstream; a path without the root matches no route and is not
\* forwarded; the whole prefix, root included, is away from the forwarded path.
C13_WithRoot ==
    (Served /\ cfg.root # <<>>) =>
        /\ ~HasPrefix(last.path, cfg.root) => last.route = 0 /\ ~last.sent
        /\ last.route # 0 =>
              /\ HasPrefix(EffectivePrefix(RouteUpstream), cfg.root)
              /\ HasPrefix(last.path, EffectivePrefix(RouteUpstream))
              /\ last.sent =>
                    last.outPath = TrimPrefix(last.path, EffectivePrefix(RouteUpstream))

\* C13 witness: under root "/root", GET /root/api/private/accounts/1 reached the
\* destination as /accounts/1.
C13_Witness ==
    /\ Served
    /\ cfg.root = <<"/", "root">>
    /\ last.path = <<"/", "root", "/", "api", "/", "private", "/", "accounts", "/", "1">>
    /\ last.delivered
    /\ last.outPath = <<"/", "accounts", "/", "1">>

\* C14: a Manifest that LoadManifest returned has a non-nil annotations map at
\* the manifest level and on every upstream, empty where the file declared none
\* and as declared where it declared some.
C14_Annotations ==
    pc \notin {"start", "loadFailed"} =>
        /\ ~manifest.Annotations.nil
        /\ manifest.Annotations.kv = file.Annotations.kv
        /\ Len(Ups) = Len(file.Upstreams)
        /\ \A k \in 1..Len(Ups) :
              /\ ~Ups[k].Annotations.nil
              /\ Ups[k].Annotations.kv = file.Upstreams[k].Annotations.kv

\* C14 witness: loaded, a file without annotations whose first upstream declares
\* none and whose second declares some.
C14_Witness ==
    /\ pc = "loaded"
    /\ file.Annotations.nil
    /\ Len(file.Upstreams) = 2
    /\ file.Upstreams[1].Annotations.nil
    /\ file.Upstreams[2].Annotations.kv # {}
    /\ manifest.Annotations = EmptyMap
    /\ Ups[1].Annotations = EmptyMap

\* C15: from the return of LoadManifest on, through New and every request, the
\* Manifest is what LoadManifest returned, and Upstreams() returns its upstream
\* sequence, in the order of the file.
C15_ManifestKept ==
    /\ pc \notin {"start", "loadFailed"} => manifest = LoadManifest(file).m
    /\ Called("Upstreams") =>
          /\ last.val = manifest.Upstreams
          /\ Len(last.val) = Len(file.Upstreams)
          /\ \A k \in 1..Len(last.val) :
                last.val[k].Identifier = file.Upstreams[k].Identifier

\* C15 witness: Upstreams() returned two upstreams, "accounts" before "widgets".
C15_Witness ==
    /\ Called("Upstreams")
    /\ Len(last.val) = 2
    /\ last.val[1].Identifier = "accounts"
    /\ last.val[2].Identifier = "widgets"

\* C16: for every forwarded request the director runs the default director,
\* then the host override, then the request modifier if one is configured; the
\* outgoing Host is the destination's host, not the inbound one, and it is what
\* the modifier finds.
C16_Director ==
    (Served /\ last.sent) =>
        /\ SelectSeq(last.events, LAMBDA e : e \in {"director", "host", "modifier"})
              = <<"director", "host">>
                    \o (IF cfg.requestModifier THEN <<"modifier">> ELSE <<>>)
        /\ last.outHost = ParseURL(Ups[RouteUpstream].Destination).Host
        /\ last.outHost # InboundHost
        /\ cfg.requestModifier =>
              last.modifierSaw = ParseURL(Ups[RouteUpstream].Destination).Host

\* C16 witness: the modifier found the Host "accounts.local" on a request whose
\* round trip failed.
C16_Witness ==
    /\ Served
    /\ last.sent
    /\ ~last.delivered
    /\ cfg.requestModifier
    /\ last.modifierSaw = "accounts.local"

\* C17 as stated: without KeepTrailingSlashes, a request whose path ends in a
\* slash is dispatched like the path without it; with the option the request
\* is not matched by the route registered without the slash.
C17_TrailingSlash ==
    (Served /\ Len(last.path) > 1 /\ Last(last.path) = "/") =>
        IF cfg.keepTrailingSlashes
        THEN last.route = 0
        ELSE last.route = FindRoute(router.routes, last.method, Front(last.path))

\* C18 as stated: when the destination of an upstream does not parse, or parses
\* to a URL without scheme or without host, New returns an error and no Proxy.
C18_SchemeAndHost ==
    (Returned /\ entry = "New") =>
        \A k \in 1..Len(Ups) :
            (\/ ParseURL(Ups[k].Destination).err
             \/ ParseURL(Ups[k].Destination).Scheme = ""
             \/ ParseURL(Ups[k].Destination).Host = "")
                => pc = "failed" /\ proxy.nil /\ err # NoError

\* The response modifier ran on the destination's answer and returned an error.
ModifierFailed == last.delivered /\ Count("modifyResponse") > 0 /\ ~last.respModified

\* C19: when the response modifier returns an error and an error handler is
\* configured, that handler is called, once, and the response is its own (no
\* 502, no log entry); when the round trip fails, the response modifier is not
\* called.
C19_ModifierError ==
    Served =>
        /\ (ModifierFailed /\ cfg.errorHandler) =>
              /\ last.responder = "errorHandler"
              /\ Count("errorHandler") = 1
              /\ Count("defaultErrorHandler") = 0
              /\ last.logged = <<>>
              /\ last.status # 502
        /\ (last.sent /\ ~last.delivered) =>
              /\ Count("modifyResponse") = 0
              /\ ~last.respModified

\* C19 witness: the error handler answered after the response modifier failed.
C19_Witness ==
    /\ Served
    /\ ModifierFailed
    /\ cfg.errorHandler
    /\ last.responder = "errorHandler"

\* C20: while requests are handled at once, in whatever interleaving of their
\* steps, the route table, the ReverseProxy values, the Manifest and the
\* configuration stay as New left them, and the outcome written for each
\* request (endpoint, RouteInfo, forwarded path and host, status, responder) is
\* the outcome of the same request handled alone in the same environment.
C20_Isolation ==
    /\ [](\A g \in Goroutines :
            inflight[g].stage = "written" =>
                inflight[g].r = routeHTTP(router, cfg, inflight[g].method,
                                          inflight[g].path, inflight[g].env))
    /\ [][pc = "serving" => UNCHANGED <<router, built, manifest, cfg, proxy>>]_vars

\* C20 witness: two requests written at once, one forwarded to accounts.local
\* whose round trip failed, one for a path without route answered 404.
C20_Witness ==
    /\ pc = "serving"
    /\ inflight[1].stage = "written"
    /\ inflight[2].stage = "written"
    /\ inflight[1].r.outURLHost = "accounts.local"
    /\ ~inflight[1].r.delivered
    /\ inflight[1].r.status = 502
    /\ inflight[2].r.route = 0
    /\ inflight[2].r.status = 404

\* The place of the first event of that name in the record of the request.
Pos(ev) == CHOOSE i \in 1..Len(last.events) : last.events[i] = ev

\* C21: with an observe function configured, every forwarded request has one
\* call of it, immediately before the ReverseProxy takes the request (its
\* director is the next thing to run), after every middleware of the upstream
\* and after the prefix was stripped.
C21_HookBeforeForward ==
    (Served /\ cfg.observe) =>
        /\ last.sent => last.hooked = 1
        /\ last.hooked > 0 =>
              /\ Count("observe") = 1
              /\ Count("director") = 1
              /\ Pos("director") = Pos("observe") + 1
              /\ last.entered = Stack(EndpointUpstream(router.routes[last.route]))
              /\ \A i \in 1..Len(last.events) :
                    last.events[i] \in Range(last.entered) \cup {"strip"}
                        => i < Pos("observe")
              /\ EffectivePrefix(RouteUpstream) # <<>> =>
                    Count("strip") = 1 /\ Pos("strip") < Pos("observe")

\* C21 witness: observe ran after the middleware A, B and the stripping of
\* "/private", and the request was then forwarded.
C21_Witness ==
    /\ Served
    /\ cfg.observe
    /\ last.sent
    /\ last.hooked = 1
    /\ last.entered = <<"A", "B">>
    /\ Count("strip") = 1
    /\ Pos("strip") < Pos("observe")

\* The milliseconds whose nanoseconds an int64 holds: 9,223,372,036,854.
MaxMillis == <<854, 36, 372, 223, 9>>

\* The ReverseProxy of upstream k of the manifest, once mount has made it.
Mounted(k) == pc \in {"mounting", "serving", "mounted"} /\ k <= Len(built)

C23_Index ==
    pc \notin {"start", "loadFailed"} =>
        /\ DOMAIN manifest.upstreamIndex = {Ups[k].Identifier : k \in 1..Len(Ups)}
        /\ \A id \in DOMAIN manifest.upstreamIndex :
              Ups[manifest.upstreamIndex[id]].Identifier = id
        /\ \A id1, id2 \in DOMAIN manifest.upstreamIndex :
              manifest.upstreamIndex[id1] = manifest.upstreamIndex[id2] => id1 = id2

\* C24: a request whose path matches a route of the manifest while no route
\* matching the path declares its method reaches no endpoint: no middleware,
\* no observe function and no ReverseProxy runs, and nothing is forwarded.
C24_MethodMismatch ==
    (Served /\ PathDeclared(last.path) /\ ~Declared(last.method, last.path)) =>
        /\ last.route = 0
        /\ last.events = <<>>
        /\ last.entered = <<>>
        /\ last.hooked = 0
        /\ ~last.sent
        /\ ~last.delivered

\* C24 witness: POST for the path of GET /accounts/{id}, with an observe
\* function and middleware configured for the upstream, was refused.
C24_Witness ==
    /\ Served
    /\ cfg.observe
    /\ "accounts" \in DOMAIN cfg.middleware
    /\ last.method = "POST"
    /\ last.path = <<"/", "private", "/", "accounts", "/", "1">>
    /\ PathDeclared(last.path)
    /\ last.status = 405
    /\ last.hooked = 0

\* The calls of ServeMux.Method made for a method and a path.
CallsFor(method, path) ==
    {i \in 1..Len(mux.calls) : mux.calls[i].method = method /\ mux.calls[i].path = path}

\* C25 as stated: every call of ServeMux.Method registers its pair, several
\* methods of one path included; a request with a registered method and path
\* is served by the handler of that pair, and a request for a registered path
\* with a method never registered for it by the MethodNotAllowed handler.  A
\* registration fails at most when its very pair was registered before.
C25_ServeMux ==
    mux.made =>
        /\ \/ mux.panic = <<>>
           \/ \E i \in 1..(Len(mux.calls) - 1) :
                 /\ mux.calls[i].method = Last(mux.calls).method
                 /\ mux.calls[i].path = Last(mux.calls).path
        /\ mux.served =>
              IF CallsFor(mux.method, mux.path) # {}
              THEN /\ mux.responder = "handler"
                   /\ mux.handler \in {mux.calls[i].handler : i \in CallsFor(mux.method, mux.path)}
              ELSE (\E i \in 1..Len(mux.calls) : mux.calls[i].path = mux.path) =>
                      /\ mux.status = 405
                      /\ mux.responder \in {"defaultMethodNotAllowed", "custom"}

====
